---- MODULE Spec2Model ----
(***************************************************************************)
(* Model of the Zen Coding / Emmet abbreviation parser                     *)
(* (src/javascript/parsers/abbreviationParser2.js): the node tree and its  *)
(* editing operations, the scanner with its sub-parsers, the unroll and    *)
(* squash rewrites and the pre/post-processor pipeline.                    *)
(*                                                                         *)
(* Strings are sequences of one-character strings; string positions are    *)
(* 0-based as in the source, so the character at position p of s is        *)
(* s[p + 1].  Nodes live in a heap (a sequence of node records); a node    *)
(* reference is its index and 0 is null.  null and '' are both falsy in    *)
(* every test the source makes of _name and _text, and both are << >>.     *)
(***************************************************************************)
EXTENDS Integers, Sequences, FiniteSets, TLC

VARIABLES
    heap,            \* every AbbreviationNode allocated so far
    pc,              \* position of the running call
    abbr,            \* the string handed to the running call
    given,           \* the attribute entries abbr was written from (SpecAttr)
    frames,          \* activations of parseAbbreviation, innermost last
    tree,            \* parse(): var tree
    error,           \* the exception that ended the call, "" for none
    options,         \* parse(): options after `options || {}`
    preprocessors,   \* module-level registry
    postprocessors,  \* module-level registry
    preprocessor,    \* the stray global removeFilter assigns
    hookIdx,         \* index of the next hook _.each will call
    calls            \* what the hooks and rewrites saw, in call order

vars == <<heap, pc, abbr, given, frames, tree, error, options,
          preprocessors, postprocessors, preprocessor, hookIdx, calls>>

(***************************************************************************)
(* Characters                                                              *)
(***************************************************************************)
Upper == {"A","B","C","D","E","F","G","H","I","J","K","L","M",
          "N","O","P","Q","R","S","T","U","V","W","X","Y","Z"}
Lower == {"a","b","c","d","e","f","g","h","i","j","k","l","m",
          "n","o","p","q","r","s","t","u","v","w","x","y","z"}
DigitChars == <<"0","1","2","3","4","5","6","7","8","9">>
Digits == {DigitChars[i] : i \in 1..Len(DigitChars)}
Space == {" ", "\t", "\n", "\r"}

\* \w of a JavaScript regular expression
WordClass == Upper \cup Lower \cup Digits \cup {"_"}

\* var reWord = /[\w\-:\$]/
reWord == WordClass \cup {"-", ":", "$"}

\* the character class of reValidName: [\w\-\$\:@\!]
NameClass == WordClass \cup {"-", "$", ":", "@", "!"}

\* var reValidName = /^[\w\-\$\:@\!]+\+?$/i
reValidName(s) ==
    LET n == Len(s)
        m == IF n > 0 /\ s[n] = "+" THEN n - 1 ELSE n
    IN  m >= 1 /\ \A i \in 1..m : s[i] \in NameClass

\* var pairs = {'[': ']', '(': ')', '{': '}'}
pairs(c) == CASE c = "[" -> "]" [] c = "(" -> ")" [] c = "{" -> "}"

specialChars == {"#", ".", "*", ":", "$", "-", "_", "!", "@", "|"}

isAllowedChar(ch) ==
    ch \in Upper \/ ch \in Lower \/ ch \in Digits \/ ch \in specialChars

\* String.prototype.toLowerCase on the names the model uses
UpperSeq == <<"A","B","C","D","E","F","G","H","I","J","K","L","M",
              "N","O","P","Q","R","S","T","U","V","W","X","Y","Z">>
LowerSeq == <<"a","b","c","d","e","f","g","h","i","j","k","l","m",
              "n","o","p","q","r","s","t","u","v","w","x","y","z">>
toLowerCase(s) ==
    [i \in 1..Len(s) |->
        IF s[i] \in Upper
        THEN LowerSeq[CHOOSE k \in 1..Len(UpperSeq) : UpperSeq[k] = s[i]]
        ELSE s[i]]

\* String.prototype.substring(from, to), 0-based, to exclusive
substring(s, from, to) ==
    LET a == IF from < 0 THEN 0 ELSE IF from > Len(s) THEN Len(s) ELSE from
        b == IF to < 0 THEN 0 ELSE IF to > Len(s) THEN Len(s) ELSE to
        lo == IF a <= b THEN a ELSE b
        hi == IF a <= b THEN b ELSE a
    IN  [i \in 1..(hi - lo) |-> s[lo + i]]

\* function stripped(str): the string without its first and last character
stripped(str) == substring(str, 1, Len(str) - 1)

\* require('utils').trim
trim(s) ==
    LET keep == {i \in 1..Len(s) : s[i] \notin Space}
    IN  IF keep = {} THEN << >>
        ELSE LET lo == CHOOSE i \in keep : \A j \in keep : i <= j
                 hi == CHOOSE i \in keep : \A j \in keep : j <= i
             IN  [i \in 1..(hi - lo + 1) |-> s[lo + i - 1]]

\* parseInt(count, 10) of a run of decimal digits
DigitVal(c) == (CHOOSE k \in 1..Len(DigitChars) : DigitChars[k] = c) - 1
RECURSIVE parseInt(_)
parseInt(ds) ==
    IF ds = << >> THEN 0
    ELSE 10 * parseInt(SubSeq(ds, 1, Len(ds) - 1)) + DigitVal(ds[Len(ds)])

(***************************************************************************)
(* The character cursor (require('stringStream')), from its contract.      *)
(***************************************************************************)
create(s) == [string |-> s, pos |-> 0, start |-> 0]

eol(st) == st.pos >= Len(st.string)

\* the current character, "" at the end of the string
peek(st) == IF eol(st) THEN "" ELSE st.string[st.pos + 1]

\* next(): the stream after consuming one character (unchanged at the end);
\* the character returned is peek of the stream before
next(st) == IF eol(st) THEN st ELSE [st EXCEPT !.pos = @ + 1]

backUp(st, n) == [st EXCEPT !.pos = @ - n]

current(st) == substring(st.string, st.start, st.pos)

\* eatWhile(match) for a character class; it returns pos > start-of-run
RECURSIVE RunEnd(_, _, _)
RunEnd(s, p, class) ==
    IF p < Len(s) /\ s[p + 1] \in class THEN RunEnd(s, p + 1, class) ELSE p
eatWhile(st, class) == [st EXCEPT !.pos = RunEnd(st.string, st.pos, class)]
eatSpace(st) == eatWhile(st, Space)

\* skipToPair(open, close): the position just after the balanced close, or
\* -1 when the string ends first (the cursor then stays where it was)
RECURSIVE PairEnd(_, _, _, _, _)
PairEnd(s, p, depth, open, close) ==
    IF p >= Len(s) THEN -1
    ELSE IF s[p + 1] = open THEN PairEnd(s, p + 1, depth + 1, open, close)
    ELSE IF s[p + 1] = close
         THEN IF depth - 1 < 1 THEN p + 1
              ELSE PairEnd(s, p + 1, depth - 1, open, close)
    ELSE PairEnd(s, p + 1, depth, open, close)
skipToPair(st, open, close) ==
    LET e == PairEnd(st.string, st.pos, 0, open, close)
    IN  [ok |-> e >= 0, st |-> IF e >= 0 THEN [st EXCEPT !.pos = e] ELSE st]

\* match(/^\*(\d+)?/, true): matched, the digits of group 1 (<< >> when the
\* group did not take part) and the stream after consuming the match
matchMultiplier(st) ==
    IF peek(st) # "*" THEN [matched |-> FALSE, digits |-> << >>, st |-> st]
    ELSE LET e == RunEnd(st.string, st.pos + 1, Digits)
         IN  [matched |-> TRUE,
              digits  |-> substring(st.string, st.pos + 1, e),
              st      |-> [st EXCEPT !.pos = e]]

(***************************************************************************)
(* Errors                                                                  *)
(***************************************************************************)
NoError == ""
ErrInvalidAbbreviation == "Invalid abbreviation"
ErrNoPair == "Invalid abbreviation: mo matching pair found"
ErrAttrValue == "Invalid attribute value"
ErrAttrSet == "Invalid attribute set definition"
ErrEndlessLoop == "Endless loop detected"
\* what the JavaScript runtime raises when a property of null is read
ErrTypeError == "TypeError"
\* a call that never returns
ErrHang == "does not terminate"

(***************************************************************************)
(* Attribute and text sub-parsers                                          *)
(***************************************************************************)
Quotes == {"\"", "'"}

\* consumeQuotedValue(stream, quote): whether the closing quote was found,
\* and the stream after the characters consumed
RECURSIVE consumeQuotedValue(_, _)
consumeQuotedValue(st, quote) ==
    IF eol(st) THEN [ok |-> FALSE, st |-> st]
    ELSE LET ch == peek(st)
             s1 == next(st)
         IN  IF ch = quote THEN [ok |-> TRUE, st |-> s1]
             ELSE IF ch = "\\" THEN consumeQuotedValue(s1, quote)  \* continue
             ELSE consumeQuotedValue(s1, quote)

\* the while loop of extractAttributes, one operator per statement group
RECURSIVE extractLoop(_, _)

\* else if (stream.eatWhile(reWord)) attrValue = stream.current();
\* else throw 'Invalid attribute value'.  p is pos before the eatWhile, s5
\* the stream after it
extractBare(attrName, p, s5, result) ==
    IF s5.pos > p
    THEN extractLoop(eatSpace(s5),
             Append(result, [name |-> attrName, value |-> current(s5)]))
    ELSE [err |-> ErrAttrValue, attrs |-> result]

\* if ((quote == '"' || quote == "'") && consumeQuotedValue(stream, quote))
\* q is the outcome of consumeQuotedValue, or the stream as it was when
\* quote is no quote character
extractQuoted(attrName, quote, q, result) ==
    IF quote \in Quotes /\ q.ok
    THEN extractLoop(eatSpace(q.st),
             Append(result, [name |-> attrName,
                             value |-> stripped(current(q.st))]))
    ELSE extractBare(attrName, q.st.pos, eatWhile(q.st, reWord), result)

\* stream.start = stream.pos; var quote = stream.next(); s3 is the stream
\* with start set, just after the '='
extractValue(attrName, s3, result) ==
    extractQuoted(attrName, peek(s3),
        IF peek(s3) \in Quotes THEN consumeQuotedValue(next(s3), peek(s3))
        ELSE [ok |-> FALSE, st |-> next(s3)],
        result)

\* if (stream.eatWhile(reWord)) {...} else break; p is pos before the
\* eatWhile, s1 the stream after it
extractName(p, s1, result) ==
    IF ~(s1.pos > p) THEN [err |-> NoError, attrs |-> result]
    ELSE IF peek(s1) # "="
    THEN extractLoop(eatSpace(s1),
             Append(result, [name |-> current(s1), value |-> << >>]))
    ELSE extractValue(current(s1),
             [next(s1) EXCEPT !.start = next(s1).pos], result)

extractLoop(st, result) ==
    IF eol(st) THEN [err |-> NoError, attrs |-> result]
    ELSE extractName(st.pos, eatWhile([st EXCEPT !.start = st.pos], reWord),
                     result)

extractAttributes(attrSetStr) ==
    extractLoop(eatSpace(create(trim(attrSetStr))), << >>)

\* optimizeAttributes: the first occurrence of a name keeps its place, later
\* ones are merged into it (class values joined, other values overwritten)
ClassName == <<"c", "l", "a", "s", "s">>
IdName == <<"i", "d">>
mergeAttr(acc, attr) ==
    IF \E i \in 1..Len(acc) : acc[i].name = attr.name
    THEN LET i == CHOOSE k \in 1..Len(acc) : acc[k].name = attr.name
         IN  IF toLowerCase(attr.name) = ClassName
             THEN [acc EXCEPT ![i].value =
                      @ \o (IF Len(@) > 0 THEN <<" ">> ELSE << >>) \o attr.value]
             ELSE [acc EXCEPT ![i].value = attr.value]
    ELSE Append(acc, attr)
RECURSIVE optimizeAttributes(_)
optimizeAttributes(attrs) ==
    IF attrs = << >> THEN << >>
    ELSE mergeAttr(optimizeAttributes(SubSeq(attrs, 1, Len(attrs) - 1)),
                   attrs[Len(attrs)])

\* var attrMap = {'#': 'id', '.': 'class'}
attrMap(c) == IF c = "#" THEN IdName ELSE ClassName

\* the while loop of parseAttributes; nameEnd is -1 for null
RECURSIVE parseAttrLoop(_, _, _)

\* result = result.concat(extractAttributes(stripped(stream.current())));
\* x is what extractAttributes gave
parseAttrConcat(st, result, nameEnd, x) ==
    IF x.err # NoError
    THEN [err |-> x.err, result |-> result, nameEnd |-> nameEnd]
    ELSE parseAttrLoop(st, result \o x.attrs, nameEnd)

\* case '[': r is what skipToPair('[', ']') gave
parseAttrSet(r, result, nameEnd) ==
    IF ~r.ok
    THEN [err |-> ErrAttrSet, result |-> result, nameEnd |-> nameEnd]
    ELSE parseAttrConcat(r.st, result, nameEnd,
             extractAttributes(stripped(current(r.st))))

\* case '#', case '.': s2 is the stream after eatWhile(reWord)
parseAttrShort(c, s2, result, nameEnd) ==
    parseAttrLoop(s2,
        Append(result, [name |-> attrMap(c), value |-> current(s2)]), nameEnd)

parseAttrLoop(st, result, nameEnd) ==
    IF eol(st) THEN [err |-> NoError, result |-> result, nameEnd |-> nameEnd]
    ELSE IF peek(st) \in {"#", "."}
    THEN parseAttrShort(peek(st),
             eatWhile([next(st) EXCEPT !.start = next(st).pos], reWord),
             result, IF nameEnd = -1 THEN st.pos ELSE nameEnd)
    ELSE IF peek(st) = "["
    THEN parseAttrSet(skipToPair([st EXCEPT !.start = st.pos], "[", "]"),
             result, IF nameEnd = -1 THEN st.pos ELSE nameEnd)
    ELSE parseAttrLoop(next(st), result, nameEnd)

\* parseAttributes(abbr): found is FALSE for the null result; r is what the
\* loop gave
parseAttrResult(abbrStr, r) ==
    IF r.err # NoError
    THEN [err |-> r.err, found |-> FALSE, element |-> abbrStr, attributes |-> << >>]
    ELSE IF r.result = << >>
    THEN [err |-> NoError, found |-> FALSE, element |-> abbrStr, attributes |-> << >>]
    ELSE [err |-> NoError, found |-> TRUE,
          element |-> substring(abbrStr, 0, r.nameEnd),
          attributes |-> optimizeAttributes(r.result)]
parseAttributes(abbrStr) ==
    parseAttrResult(abbrStr, parseAttrLoop(create(abbrStr), << >>, -1))

\* the while loop of extractText.  skipToPair's result is ignored there, so
\* a pair that does not close leaves the cursor in place and the loop spins:
\* hang reports that case
RECURSIVE extractTextLoop(_)
extractTextLoop(st) ==
    IF eol(st) THEN [found |-> FALSE, hang |-> FALSE, element |-> << >>, text |-> << >>]
    ELSE IF peek(st) \in {"[", "("}
    THEN LET r == skipToPair(st, peek(st), pairs(peek(st)))
         IN  IF r.ok THEN extractTextLoop(r.st)
             ELSE [found |-> FALSE, hang |-> TRUE, element |-> << >>, text |-> << >>]
    ELSE IF peek(st) = "{"
    THEN LET r == skipToPair([st EXCEPT !.start = st.pos], "{", "}")
         IN  [found |-> TRUE, hang |-> FALSE,
              element |-> substring(st.string, 0, st.pos),
              text |-> stripped(current(r.st))]
    ELSE extractTextLoop(next(st))

extractText(abbrStr) ==
    IF ~(\E i \in 1..Len(abbrStr) : abbrStr[i] = "{")
    THEN [found |-> FALSE, hang |-> FALSE, element |-> << >>, text |-> << >>]
    ELSE extractTextLoop(create(abbrStr))

(***************************************************************************)
(* AbbreviationNode                                                        *)
(***************************************************************************)
\* function AbbreviationNode(parent): the fields the parser reads or writes
\* (_data stays empty and the output properties stay '' throughout)
AbbreviationNode ==
    [parent |-> 0, children |-> << >>, _attributes |-> << >>,
     abbreviation |-> << >>, counter |-> 1, _name |-> << >>, _text |-> << >>,
     repeatCount |-> 1, hasImplicitRepeat |-> FALSE]

\* _.indexOf(list, x): 0-based, -1 when absent
indexOf(list, x) ==
    IF \E i \in 1..Len(list) : list[i] = x
    THEN (CHOOSE i \in 1..Len(list) :
             list[i] = x /\ \A j \in 1..(i - 1) : list[j] # x) - 1
    ELSE -1

\* _.without(list, x)
RECURSIVE without(_, _)
without(list, x) ==
    IF list = << >> THEN << >>
    ELSE LET rest == without(Tail(list), x)
         IN  IF Head(list) = x THEN rest ELSE <<Head(list)>> \o rest

\* Array.prototype.splice(start, deleteCount, items...) on list
splice(list, start, deleteCount, items) ==
    LET len == Len(list)
        s == IF start < 0 THEN (IF len + start < 0 THEN 0 ELSE len + start)
             ELSE IF start > len THEN len ELSE start
        d == IF deleteCount < 0 THEN 0
             ELSE IF deleteCount > len - s THEN len - s ELSE deleteCount
    IN  SubSeq(list, 1, s) \o items \o SubSeq(list, s + d + 1, len)

\* addChild(child, position) with a child given; position -1 is undefined
addChild(h, this, child, position) ==
    [h EXCEPT ![child].parent = this,
              ![this].children =
                  IF position = -1 THEN Append(@, child)
                  ELSE splice(@, position, 0, <<child>>)]

\* addChild() with no argument: the heap with a fresh child of this, which is
\* the node Len(h) + 1
addNewChild(h, this) ==
    addChild(Append(h, AbbreviationNode), this, Len(h) + 1, -1)

\* clone(): the heap with a deep copy of node n, and the copy
RECURSIVE clone(_, _)
RECURSIVE cloneChildren(_, _, _, _)
cloneChildren(h, kids, k, node) ==
    IF k > Len(kids) THEN h
    ELSE LET r  == clone(h, kids[k])
             h1 == [r.h EXCEPT ![r.node].parent = node,
                               ![node].children = Append(@, r.node)]
         IN  cloneChildren(h1, kids, k + 1, node)
clone(h, n) ==
    LET node == Len(h) + 1
        h1 == Append(h, [h[n] EXCEPT !.parent = 0, !.children = << >>])
    IN  [h |-> cloneChildren(h1, h[n].children, 1, node), node |-> node]

\* remove()
remove(h, this) ==
    IF h[this].parent # 0
    THEN [h EXCEPT ![h[this].parent].children = without(@, this)]
    ELSE h

\* replace(items): this.parent must not be null (the source then throws a
\* TypeError before it changes anything)
RECURSIVE setParents(_, _, _)
setParents(h, items, parent) ==
    IF items = << >> THEN h
    ELSE setParents([h EXCEPT ![Head(items)].parent = parent], Tail(items), parent)
replace(h, this, items) ==
    LET parent == h[this].parent
        ix == indexOf(h[parent].children, this)
        h1 == [h EXCEPT ![parent].children = splice(@, ix, 1, items)]
    IN  setParents(h1, items, parent)

\* updateProperty that leaves the descendants alone: the counter properties
\* must tell it from the recursive one
updatePropertyOwn(h, this, value) == [h EXCEPT ![this].counter = value]

\* updateProperty('counter', value)
RECURSIVE updateProperty(_, _, _)
RECURSIVE updateEach(_, _, _, _)
updateEach(h, kids, k, value) ==
    IF k > Len(kids) THEN h
    ELSE updateEach(updateProperty(h, kids[k], value), kids, k + 1, value)
updateProperty(h, this, value) ==
    LET h1 == [h EXCEPT ![this].counter = value]
    IN  updateEach(h1, h1[this].children, 1, value)

\* _setRepeat(count) on a node record; count << >> stands for undefined
_setRepeat(node, count) ==
    IF count # << >>
    THEN [node EXCEPT !.repeatCount =
             IF parseInt(count) # 0 THEN parseInt(count) ELSE 1]
    ELSE [node EXCEPT !.hasImplicitRepeat = TRUE]

isGroup(h, n) == h[n].abbreviation = << >>
isEmpty(h, n) == h[n].abbreviation = << >> /\ Len(h[n].children) = 0
isRepeating(h, n) == h[n].repeatCount > 1 \/ h[n].hasImplicitRepeat

\* the match of /\*(\d+)?$/ in s: the 0-based position of its '*', or -1
multiplierAt(s) ==
    IF \E k \in 1..Len(s) :
           s[k] = "*" /\ \A i \in (k + 1)..Len(s) : s[i] \in Digits
    THEN (CHOOSE k \in 1..Len(s) :
           s[k] = "*" /\ \A i \in (k + 1)..Len(s) : s[i] \in Digits) - 1
    ELSE -1

\* setAbbreviation(abbr) on node this, in the order of its statements; each
\* stage yields the exception thrown ("" for none) and the heap with what
\* was assigned before it.  node is this as assigned so far.

\* this._name = abbr; validate name
setAbbreviationName(h, this, node, a3) ==
    IF a3 # << >> /\ ~reValidName(a3)
    THEN [err |-> ErrInvalidAbbreviation,
          h |-> [h EXCEPT ![this] = [node EXCEPT !._name = a3]]]
    ELSE [err |-> NoError,
          h |-> [h EXCEPT ![this] = [node EXCEPT !._name = a3]]]

\* if (abbrAttrs) {abbr = abbrAttrs.element; this._attributes = ...}
setAbbreviationAttrs(h, this, node, a2, abbrAttrs) ==
    IF abbrAttrs.err # NoError
    THEN [err |-> abbrAttrs.err, h |-> [h EXCEPT ![this] = node]]
    ELSE setAbbreviationName(h, this,
             IF abbrAttrs.found
             THEN [node EXCEPT !._attributes = abbrAttrs.attributes]
             ELSE node,
             IF abbrAttrs.found THEN abbrAttrs.element ELSE a2)

\* if (abbrText) {abbr = abbrText.element; this._text = abbrText.text;}
setAbbreviationText(h, this, node, a1, abbrText) ==
    IF abbrText.hang
    THEN [err |-> ErrHang, h |-> [h EXCEPT ![this] = node]]
    ELSE setAbbreviationAttrs(h, this,
             IF abbrText.found THEN [node EXCEPT !._text = abbrText.text]
             ELSE node,
             IF abbrText.found THEN abbrText.element ELSE a1,
             parseAttributes(IF abbrText.found THEN abbrText.element ELSE a1))

\* this.abbreviation = abbr; a1 is abbr without its multiplier
setAbbreviationRaw(h, this, node, a1) ==
    setAbbreviationText(h, this, [node EXCEPT !.abbreviation = a1], a1,
                        extractText(a1))

\* find multiplier: m is where /\*(\d+)?$/ matched
setAbbreviationAt(h, this, abbrStr, m) ==
    setAbbreviationRaw(h, this,
        IF m >= 0
        THEN _setRepeat(h[this], substring(abbrStr, m + 1, Len(abbrStr)))
        ELSE h[this],
        IF m >= 0 THEN substring(abbrStr, 0, m) ELSE abbrStr)

setAbbreviation(h, this, abbrStr) ==
    setAbbreviationAt(h, this, abbrStr, multiplierAt(abbrStr))

(***************************************************************************)
(* unroll and squash                                                       *)
(***************************************************************************)
\* the clone loop numbering the copies one too low: the copy properties must
\* tell it from the loop of the code
RECURSIVE unrollClonesFromZero(_, _, _, _)
unrollClonesFromZero(h, child, i, j) ==
    IF j - 1 > 0
    THEN LET r  == clone(h, child)
             h1 == addChild(r.h, r.h[child].parent, r.node, i + 1)
             h2 == updateProperty(h1, r.node, j - 1)
         IN  unrollClonesFromZero(h2, child, i, j - 1)
    ELSE h

\* while (--j > 0) child.parent.addChild(child.clone(), i + 1)
\*                      .updateProperty('counter', j + 1);
\* j is the value before the decrement
RECURSIVE unrollClones(_, _, _, _)
unrollClones(h, child, i, j) ==
    IF j - 1 > 0
    THEN LET r  == clone(h, child)
             h1 == addChild(r.h, r.h[child].parent, r.node, i + 1)
             h2 == updateProperty(h1, r.node, (j - 1) + 1)
         IN  unrollClones(h2, child, i, j - 1)
    ELSE h

\* the body of `if (child.isRepeating())`
unrollChild(h, child, i) ==
    LET j  == h[child].repeatCount
        h1 == [h EXCEPT ![child].repeatCount = 1]
        h2 == updateProperty(h1, child, 1)
    IN  unrollClones(h2, child, i, j)

\* for (i = node.children.length - 1; i >= 0; i--)
RECURSIVE unrollLoop(_, _, _)
unrollLoop(h, node, i) ==
    IF i < 0 THEN h
    ELSE LET child == h[node].children[i + 1]
         IN  unrollLoop(IF isRepeating(h, child) THEN unrollChild(h, child, i)
                        ELSE h,
                        node, i - 1)

\* unroll(node), with _.each(node.children, unroll): forEach visits the
\* indices below the length it started with that still exist
RECURSIVE unroll(_, _)
RECURSIVE unrollEach(_, _, _, _)
unrollEach(h, node, k, len) ==
    IF k >= len \/ k >= Len(h[node].children) THEN h
    ELSE unrollEach(unroll(h, h[node].children[k + 1]), node, k + 1, len)
unroll(h, node) ==
    LET h1 == unrollLoop(h, node, Len(h[node].children) - 1)
    IN  unrollEach(h1, node, 0, Len(h1[node].children))

\* for (i = node.children.length - 1; i >= 0; i--) of squash
RECURSIVE squashLoop(_, _, _)
squashLoop(h, node, i) ==
    IF i < 0 THEN h
    ELSE LET n == h[node].children[i + 1]
         IN  squashLoop(IF isGroup(h, n) THEN replace(h, n, h[n].children)
                        ELSE IF isEmpty(h, n) THEN remove(h, n)
                        ELSE h,
                        node, i - 1)

\* squash(node), with _.each(node.children, squash)
RECURSIVE squash(_, _)
RECURSIVE squashEach(_, _, _, _)
squashEach(h, node, k, len) ==
    IF k >= len \/ k >= Len(h[node].children) THEN h
    ELSE squashEach(squash(h, h[node].children[k + 1]), node, k + 1, len)
squash(h, node) ==
    LET h1 == squashLoop(h, node, Len(h[node].children) - 1)
    IN  squashEach(h1, node, 0, Len(h1[node].children))

(***************************************************************************)
(* parseAbbreviation, one scan-loop iteration per step                     *)
(***************************************************************************)
\* var loopProtector = 1000
LoopProtectorInit == 1000

\* the prologue of parseAbbreviation(abbr): the heap with the new root and
\* its first child, and the activation; iter counts the loop bodies run
parseProlog(h, abbrStr) ==
    LET root == Len(h) + 1
        h1 == addNewChild(Append(h, AbbreviationNode), root)
    IN  [h |-> h1,
         frame |-> [stream |-> create(trim(abbrStr)), root |-> root,
                    context |-> root + 1,
                    loopProtector |-> LoopProtectorInit, iter |-> 0]]

Top == frames[Len(frames)]

\* the loop test letting the guard reach 0: the guard properties must tell
\* it from the test of the code
loopCondInclusive(f) == ~eol(f.stream) /\ f.loopProtector - 1 >= 0

\* while (!stream.eol() && --loopProtector > 0)
loopCond(f) == ~eol(f.stream) /\ f.loopProtector - 1 > 0

\* loopProtector once the loop condition was found false
exitProtector(f) ==
    IF eol(f.stream) THEN f.loopProtector ELSE f.loopProtector - 1

\* the activation as the loop body starts
enter(f) == [f EXCEPT !.loopProtector = @ - 1, !.iter = @ + 1]

\* the marker test without its end-of-input case: the token properties must
\* tell it from the test of the code
isMarkerBeforeOperator(st) == peek(next(st)) \in {"+", ">", "^", "*"}

\* var isMarker = stream.eol() || ~'+>^*'.indexOf(stream.peek()), read
\* after stream.next() has stepped over the '+'
isMarker(st) == eol(next(st)) \/ peek(next(st)) \in {"+", ">", "^", "*"}

\* stream.eatWhile(function(c) {...}) of the default case
RECURSIVE scanToken(_)
scanToken(st) ==
    IF eol(st) THEN [err |-> NoError, st |-> st]
    ELSE LET c == peek(st)
         IN  IF c = "[" \/ c = "{"
             THEN LET r == skipToPair(st, c, pairs(c))
                  IN  IF r.ok THEN scanToken(next(backUp(r.st, 1)))
                      ELSE [err |-> ErrNoPair, st |-> st]
             ELSE IF c = "+"
             THEN IF isMarker(st) THEN scanToken(next(st))
                  ELSE [err |-> NoError, st |-> st]
             ELSE IF c # "(" /\ isAllowedChar(c) THEN scanToken(next(st))
             ELSE [err |-> NoError, st |-> st]

\* _.each(inner.children, function(child) {context.addChild(child);})
RECURSIVE adoptEach(_, _, _)
adoptEach(h, kids, context) ==
    IF kids = << >> THEN h
    ELSE adoptEach(addChild(h, context, Head(kids), -1), Tail(kids), context)

\* an exception leaves parse(): the activations are unwound
Throw(kind, h) ==
    /\ pc' = "failed"
    /\ error' = kind
    /\ heap' = h
    /\ frames' = << >>
    /\ UNCHANGED <<abbr, given, tree, options, preprocessors, postprocessors,
                   preprocessor, hookIdx, calls>>

\* the scan goes on in the innermost activation f over heap h
Continue(f, h) ==
    /\ heap' = h
    /\ frames' = [frames EXCEPT ![Len(frames)] = f]
    /\ UNCHANGED <<pc, abbr, given, tree, error, options, preprocessors,
                   postprocessors, preprocessor, hookIdx, calls>>

Scanning == pc = "parse" /\ frames # << >> /\ loopCond(Top)

\* parse(abbr, options) up to the first loop test of parseAbbreviation
Parse(a, o) ==
    /\ pc = "idle"
    /\ LET p == parseProlog(<< >>, a)
       IN  /\ heap' = p.h
           /\ frames' = <<p.frame>>
    /\ pc' = "parse"
    /\ abbr' = a
    /\ options' = IF o = "undefined" THEN "{}" ELSE o
    /\ error' = NoError
    /\ tree' = 0
    /\ hookIdx' = 0
    /\ calls' = << >>
    /\ UNCHANGED <<given, preprocessors, postprocessors, preprocessor>>

\* case '(' up to the recursive call
StepGroup ==
    /\ Scanning
    /\ peek(Top.stream) = "("
    /\ LET f == enter(Top)
           r == skipToPair([f.stream EXCEPT !.start = f.stream.pos], "(", ")")
           p == parseProlog(heap, stripped(current(r.st)))
       IN  IF r.ok
           THEN /\ heap' = p.h
                /\ frames' = Append([frames EXCEPT ![Len(frames)] =
                                        [f EXCEPT !.stream = r.st]], p.frame)
                /\ UNCHANGED <<pc, abbr, given, tree, error, options,
                               preprocessors, postprocessors, preprocessor,
                               hookIdx, calls>>
           ELSE Throw(ErrNoPair, heap)

\* the recursive call of case '(' returns, and the rest of the case
GroupReturn ==
    /\ pc = "parse"
    /\ Len(frames) >= 2
    /\ ~loopCond(Top)
    /\ IF exitProtector(Top) < 1
       THEN Throw(ErrEndlessLoop, heap)
       ELSE LET inner == Top.root
                f  == frames[Len(frames) - 1]
                m  == matchMultiplier(f.stream)
                h1 == IF m.matched
                      THEN [heap EXCEPT ![f.context] = _setRepeat(@, m.digits)]
                      ELSE heap
                h2 == adoptEach(h1, h1[inner].children, f.context)
            IN  /\ heap' = h2
                /\ frames' = [i \in 1..(Len(frames) - 1) |->
                                 IF i = Len(frames) - 1
                                 THEN [f EXCEPT !.stream = m.st]
                                 ELSE frames[i]]
                /\ UNCHANGED <<pc, abbr, given, tree, error, options,
                               preprocessors, postprocessors, preprocessor,
                               hookIdx, calls>>

\* case '>': context = context.addChild()
StepChild ==
    /\ Scanning
    /\ peek(Top.stream) = ">"
    /\ LET f == enter(Top)
       IN  Continue([f EXCEPT !.context = Len(heap) + 1,
                              !.stream = next(f.stream)],
                    addNewChild(heap, f.context))

\* case '+': context = context.parent.addChild()
StepSibling ==
    /\ Scanning
    /\ peek(Top.stream) = "+"
    /\ LET f == enter(Top)
       IN  IF heap[f.context].parent = 0
           THEN Throw(ErrTypeError, heap)
           ELSE Continue([f EXCEPT !.context = Len(heap) + 1,
                                   !.stream = next(f.stream)],
                         addNewChild(heap, heap[f.context].parent))

\* case '^' climbing to the parent only, as case '+' does: the climb
\* properties must tell it from the case of the code
StepClimbToParent ==
    /\ Scanning
    /\ peek(Top.stream) = "^"
    /\ LET f == enter(Top)
           parent == IF heap[f.context].parent # 0
                     THEN heap[f.context].parent ELSE f.context
       IN  Continue([f EXCEPT !.context = Len(heap) + 1,
                              !.stream = next(f.stream)],
                    addNewChild(heap, parent))

\* case '^': var parent = context.parent || context;
\*           context = (parent.parent || parent).addChild()
StepClimb ==
    /\ Scanning
    /\ peek(Top.stream) = "^"
    /\ LET f == enter(Top)
           parent == IF heap[f.context].parent # 0
                     THEN heap[f.context].parent ELSE f.context
           target == IF heap[parent].parent # 0
                     THEN heap[parent].parent ELSE parent
       IN  Continue([f EXCEPT !.context = Len(heap) + 1,
                              !.stream = next(f.stream)],
                    addNewChild(heap, target))

\* default: consume abbreviation.  t is what the eatWhile gave, r what
\* context.setAbbreviation(stream.current()) gave
TokenSet(f, st, r) ==
    IF r.err # NoError THEN Throw(r.err, r.h)
    ELSE Continue([f EXCEPT !.stream = [st EXCEPT !.start = st.pos]], r.h)
TokenScanned(f, t) ==
    IF t.err # NoError THEN Throw(t.err, heap)
    ELSE TokenSet(f, t.st, setAbbreviation(heap, f.context, current(t.st)))
StepToken ==
    /\ Scanning
    /\ peek(Top.stream) \notin {"(", ">", "+", "^"}
    /\ TokenScanned(enter(Top),
           scanToken([Top.stream EXCEPT !.start = Top.stream.pos]))

\* the outermost parseAbbreviation leaves its loop: it throws or returns
\* root to parse(), which goes on to the preprocessors
ParseReturn ==
    /\ pc = "parse"
    /\ Len(frames) = 1
    /\ ~loopCond(Top)
    /\ IF exitProtector(Top) < 1
       THEN Throw(ErrEndlessLoop, heap)
       ELSE /\ tree' = Top.root
            /\ pc' = "pre"
            /\ hookIdx' = 1
            /\ frames' = << >>
            /\ UNCHANGED <<heap, abbr, given, error, options, preprocessors,
                           postprocessors, preprocessor, calls>>

(***************************************************************************)
(* parse(): the hooks and the two rewrites                                 *)
(***************************************************************************)
\* one call of _.each(preprocessors, function(fn) {fn(tree, options);})
RunPreprocessor ==
    /\ pc = "pre"
    /\ hookIdx <= Len(preprocessors)
    /\ calls' = Append(calls, [fn |-> preprocessors[hookIdx], on |-> "pre",
                               options |-> options])
    /\ hookIdx' = hookIdx + 1
    /\ UNCHANGED <<heap, pc, abbr, given, frames, tree, error, options,
                   preprocessors, postprocessors, preprocessor>>

\* unroll(tree) of `tree = squash(unroll(tree))`
Unroll ==
    /\ pc = "pre"
    /\ hookIdx > Len(preprocessors)
    /\ heap' = unroll(heap, tree)
    /\ calls' = Append(calls, [fn |-> "unroll", on |-> "tree", options |-> ""])
    /\ pc' = "squash"
    /\ UNCHANGED <<abbr, given, frames, tree, error, options, preprocessors,
                   postprocessors, preprocessor, hookIdx>>

\* squash(...) of `tree = squash(unroll(tree))`
Squash ==
    /\ pc = "squash"
    /\ heap' = squash(heap, tree)
    /\ calls' = Append(calls, [fn |-> "squash", on |-> "tree", options |-> ""])
    /\ pc' = "post"
    /\ hookIdx' = 1
    /\ UNCHANGED <<abbr, given, frames, tree, error, options, preprocessors,
                   postprocessors, preprocessor>>

\* one call of _.each(postprocessors, function(fn) {fn(tree, options);})
RunPostprocessor ==
    /\ pc = "post"
    /\ hookIdx <= Len(postprocessors)
    /\ calls' = Append(calls, [fn |-> postprocessors[hookIdx], on |-> "post",
                               options |-> options])
    /\ hookIdx' = hookIdx + 1
    /\ UNCHANGED <<heap, pc, abbr, given, frames, tree, error, options,
                   preprocessors, postprocessors, preprocessor>>

\* return tree
Return ==
    /\ pc = "post"
    /\ hookIdx > Len(postprocessors)
    /\ pc' = "done"
    /\ UNCHANGED <<heap, abbr, given, frames, tree, error, options,
                   preprocessors, postprocessors, preprocessor, hookIdx, calls>>

\* the caller is done with the result (or the exception) of the call
Finish ==
    /\ pc \in {"done", "failed"}
    /\ pc' = "idle"
    /\ heap' = << >>
    /\ abbr' = << >>
    /\ tree' = 0
    /\ error' = NoError
    /\ options' = "{}"
    /\ hookIdx' = 0
    /\ calls' = << >>
    /\ UNCHANGED <<given, frames, preprocessors, postprocessors, preprocessor>>

(***************************************************************************)
(* The registries                                                          *)
(***************************************************************************)
\* _.include(list, x)
include(list, x) == \E i \in 1..Len(list) : list[i] = x

\* registration without the membership test: the registry properties must
\* tell it from the registration of the code
registerFnAlways(list, fn) == Append(list, fn)

\* if (!_.include(list, fn)) list.push(fn)
registerFn(list, fn) == IF ~include(list, fn) THEN Append(list, fn) ELSE list

AddPreprocessor(fn) ==
    /\ pc = "idle"
    /\ preprocessors' = registerFn(preprocessors, fn)
    /\ UNCHANGED <<heap, pc, abbr, given, frames, tree, error, options,
                   postprocessors, preprocessor, hookIdx, calls>>

\* removeFilter assigns the global `preprocessor`, not the registry
RemoveFilter(fn) ==
    /\ pc = "idle"
    /\ preprocessor' = without(preprocessors, fn)
    /\ UNCHANGED <<heap, pc, abbr, given, frames, tree, error, options,
                   preprocessors, postprocessors, hookIdx, calls>>

AddPostprocessor(fn) ==
    /\ pc = "idle"
    /\ postprocessors' = registerFn(postprocessors, fn)
    /\ UNCHANGED <<heap, pc, abbr, given, frames, tree, error, options,
                   preprocessors, preprocessor, hookIdx, calls>>

RemovePostprocessor(fn) ==
    /\ pc = "idle"
    /\ postprocessors' = without(postprocessors, fn)
    /\ UNCHANGED <<heap, pc, abbr, given, frames, tree, error, options,
                   preprocessors, preprocessor, hookIdx, calls>>

(***************************************************************************)
(* Inputs                                                                  *)
(***************************************************************************)
\* the abbreviations of Spec: up to MaxToks pieces, in every order in which
\* each ')' closes a '(' (a stray ')' stops the scan as '%' does in
\* SpecGuard), and a few longer ones
MaxToks == 3

Pieces == {<<"a">>, <<"*", "3">>, <<"*">>, <<">">>, <<"+">>, <<"^">>,
           <<"(">>, <<")">>}

RECURSIVE Flatten(_)
Flatten(ps) == IF ps = << >> THEN << >> ELSE Head(ps) \o Flatten(Tail(ps))

Closed(s) ==
    \A n \in 1..Len(s) :
        Cardinality({i \in 1..n : s[i] = ")"}) <=
        Cardinality({i \in 1..n : s[i] = "("})

LongInputs ==
    { <<"(", "(", "a", ")", ")">>,
      <<"a", "*", "3", ">", "a", "*", "3">>,
      <<"a", "*", "3", ">", "a", "*">>,
      <<"a", "*", "3", ">", "a", "*", "1">>,
      <<"a", "*", "3", "+", "a", "*", "3">>,
      <<"a", "+", "a", "*", "3", "+", "a", ">", "a">>,
      <<"(", "a", "+", "a", ")", "*", "3">>,
      <<"a", "*", "3", ">", "a", ">", "a", "*", "3", ">", "a">>,
      <<"a", "[", "b", "+", "c", "]", "+", "a">>,
      <<"a", "+", "+", "a">>,
      <<"a", "+", "+", "(", "a", ")">>,
      <<"a", "+", ">", "a", "+", "^", "a", "+", "*", "3">>,
      <<"(", "a", ">", "a", "*", "3", ")", "*", "3", "+", "a">>,
      <<"(", ">", "a", ")">>,
      <<"(", "(", ")", ")">>,
      <<"a", ">", "a", ">", "a", "^", "^", "a">>,
      <<"a", ">", "(", "a", ">", "a", "^", "a", ")", "^", "a">> }

Inputs ==
    {s \in {Flatten(ps) : ps \in UNION {[1..n -> Pieces] : n \in 0..MaxToks}} :
        Closed(s)} \cup LongInputs

(***************************************************************************)
(* Spec: one parse call on any of Inputs, no hooks registered              *)
(***************************************************************************)
Init ==
    /\ heap = << >>
    /\ pc = "idle"
    /\ abbr = << >>
    /\ given = << >>
    /\ frames = << >>
    /\ tree = 0
    /\ error = NoError
    /\ options = "{}"
    /\ preprocessors = << >>
    /\ postprocessors = << >>
    /\ preprocessor = <<"undefined">>
    /\ hookIdx = 0
    /\ calls = << >>

Next ==
    \/ \E a \in Inputs : Parse(a, "undefined")
    \/ StepGroup
    \/ GroupReturn
    \/ StepChild
    \/ StepSibling
    \/ StepClimb
    \/ StepToken
    \/ ParseReturn
    \/ Unroll
    \/ Squash
    \/ Return

Spec == Init /\ [][Next]_vars

(***************************************************************************)
(* SpecGuard: parseAbbreviation alone, on inputs that stop the scan and on *)
(* inputs as long as the loop guard allows                                 *)
(***************************************************************************)
Rep(c, n) == [i \in 1..n |-> c]

GuardInputs ==
    {Rep("+", n) : n \in (LoopProtectorInit - 2)..(LoopProtectorInit + 1)}
    \cup { <<"d", "i", "v", "%", "x">>,
           <<"d", "i", "v", "|", "x">>,
           <<"d", "i", "v", "*", "x">>,
           <<"(", "%", ")">>,
           <<"(", "a", ")", ">", "a", "^", "a", "+", "a">> }

NextGuard ==
    \/ \E a \in GuardInputs : Parse(a, "undefined")
    \/ StepGroup
    \/ GroupReturn
    \/ StepChild
    \/ StepSibling
    \/ StepClimb
    \/ StepToken
    \/ ParseReturn

SpecGuard == Init /\ [][NextGuard]_vars

(***************************************************************************)
(* SpecHooks: the registries change between parse calls, and parse runs    *)
(* the hooks it finds registered                                           *)
(***************************************************************************)
\* the functions a caller registers, and the options a caller passes
Fns == {"f", "g"}

OptionsGiven == {"undefined", "opts"}

HookInputs ==
    { <<"(", "a", ")", "*", "3", "+", "a", "^", "a", ">", "a">>,
      <<"a", "+", "a">>,
      <<"a", "|">> }

NextHooks ==
    \/ \E fn \in Fns : AddPreprocessor(fn)
    \/ \E fn \in Fns : RemoveFilter(fn)
    \/ \E fn \in Fns : AddPostprocessor(fn)
    \/ \E fn \in Fns : RemovePostprocessor(fn)
    \/ \E a \in HookInputs, o \in OptionsGiven : Parse(a, o)
    \/ StepGroup
    \/ GroupReturn
    \/ StepChild
    \/ StepSibling
    \/ StepClimb
    \/ StepToken
    \/ ParseReturn
    \/ RunPreprocessor
    \/ Unroll
    \/ Squash
    \/ RunPostprocessor
    \/ Return
    \/ Finish

SpecHooks == Init /\ [][NextHooks]_vars

(***************************************************************************)
(* SpecEdit: a caller edits a tree of nodes with addChild, remove, replace *)
(* and clone                                                               *)
(***************************************************************************)
\* the nodes the caller starts with, the most nodes there are, and the most
\* children a node is given
EditNodes == 2

MaxHeap == 3

MaxKids == 2

\* the nodes below n
RECURSIVE Descendants(_, _)
Descendants(h, n) ==
    UNION {{h[n].children[i]} \cup Descendants(h, h[n].children[i]) :
              i \in 1..Len(h[n].children)}

\* the caller never puts a node below itself
NoCycle(h, parent, child) ==
    child # parent /\ parent \notin Descendants(h, child)

Edited(h) ==
    /\ heap' = h
    /\ UNCHANGED <<pc, abbr, given, frames, tree, error, options,
                   preprocessors, postprocessors, preprocessor, hookIdx, calls>>

\* parent.addChild(child, position), child attached or not
EditAddChild(parent, child, position) ==
    /\ NoCycle(heap, parent, child)
    /\ Len(heap[parent].children) < MaxKids
    /\ position <= Len(heap[parent].children)
    /\ Edited(addChild(heap, parent, child, position))

\* parent.addChild()
EditAddNewChild(parent) ==
    /\ Len(heap) < MaxHeap
    /\ Len(heap[parent].children) < MaxKids
    /\ Edited(addNewChild(heap, parent))

\* node.remove()
EditRemove(node) == Edited(remove(heap, node))

\* node.replace(items) with no item or one; a node without a parent makes
\* replace throw before it changes anything
EditReplace(node, items) ==
    /\ heap[node].parent # 0
    /\ \A i \in 1..Len(items) : NoCycle(heap, heap[node].parent, items[i])
    /\ Edited(replace(heap, node, items))

\* node.clone()
EditClone(node) ==
    /\ Len(heap) + 1 + Cardinality(Descendants(heap, node)) <= MaxHeap
    /\ Len(clone(heap, node).h) <= MaxHeap
    /\ Edited(clone(heap, node).h)

InitEdit ==
    /\ heap = [i \in 1..EditNodes |-> AbbreviationNode]
    /\ pc = "idle"
    /\ abbr = << >>
    /\ given = << >>
    /\ frames = << >>
    /\ tree = 0
    /\ error = NoError
    /\ options = "{}"
    /\ preprocessors = << >>
    /\ postprocessors = << >>
    /\ preprocessor = <<"undefined">>
    /\ hookIdx = 0
    /\ calls = << >>

NextEdit ==
    \/ \E parent, child \in 1..Len(heap), position \in -1..(MaxKids - 1) :
           EditAddChild(parent, child, position)
    \/ \E parent \in 1..Len(heap) : EditAddNewChild(parent)
    \/ \E node \in 1..Len(heap) : EditRemove(node)
    \/ \E node \in 1..Len(heap) :
           \E items \in {<< >>} \cup {<<m>> : m \in 1..Len(heap)} :
               EditReplace(node, items)
    \/ \E node \in 1..Len(heap) : EditClone(node)

SpecEdit == InitEdit /\ [][NextEdit]_vars

(***************************************************************************)
(* SpecAttr: one parse call on an element with an attribute set            *)
(***************************************************************************)
\* the most entries of an attribute set
MaxAttrs == 2

AttrNames == {<<"b">>, <<"c">>}

\* how a value is written after the '=', and the value that stands for
AttrValues ==
    { [kind |-> "bare", written |-> <<"3">>, value |-> <<"3">>],
      [kind |-> "bare", written |-> <<"#">>, value |-> <<"#">>],
      [kind |-> "bare", written |-> <<"3", "4">>, value |-> <<"3", "4">>],
      [kind |-> "quoted", written |-> <<"\"", "x", "\"">>, value |-> <<"x">>],
      [kind |-> "quoted", written |-> <<"'", "x", "'">>, value |-> <<"x">>],
      [kind |-> "quoted", written |-> <<"\"", "x", " ", "y", "\"">>,
       value |-> <<"x", " ", "y">>],
      [kind |-> "escaped", written |-> <<"\"", "a", "\\", "\"", "b", "\"">>,
       value |-> <<"a", "\\", "\"", "b">>] }

AttrEntries ==
    {[name |-> n, kind |-> v.kind, written |-> v.written, value |-> v.value] :
        n \in AttrNames, v \in AttrValues}

\* the attribute sets: 1..MaxAttrs entries with names of their own
AttrSets ==
    {g \in UNION {[1..n -> AttrEntries] : n \in 1..MaxAttrs} :
        \A i, j \in 1..Len(g) : g[i].name = g[j].name => i = j}

\* the abbreviation a[name=value name=value]
RECURSIVE RenderEntries(_, _)
RenderEntries(g, i) ==
    IF i > Len(g) THEN << >>
    ELSE (IF i > 1 THEN <<" ">> ELSE << >>)
         \o g[i].name \o <<"=">> \o g[i].written \o RenderEntries(g, i + 1)

Render(g) == <<"a", "[">> \o RenderEntries(g, 1) \o <<"]">>

InitAttr ==
    /\ heap = << >>
    /\ pc = "idle"
    /\ abbr = << >>
    /\ given \in AttrSets
    /\ frames = << >>
    /\ tree = 0
    /\ error = NoError
    /\ options = "{}"
    /\ preprocessors = << >>
    /\ postprocessors = << >>
    /\ preprocessor = <<"undefined">>
    /\ hookIdx = 0
    /\ calls = << >>

NextAttr ==
    \/ Parse(Render(given), "undefined")
    \/ StepToken
    \/ ParseReturn
    \/ Unroll
    \/ Squash
    \/ Return

SpecAttr == InitAttr /\ [][NextAttr]_vars

(***************************************************************************)
(* What the claims speak of                                                *)
(***************************************************************************)
\* the tree under n as a value: what two trees must share to be identical
RECURSIVE TreeOf(_, _)
TreeOf(h, n) ==
    [abbreviation |-> h[n].abbreviation, name |-> h[n]._name,
     text |-> h[n]._text, attributes |-> h[n]._attributes,
     counter |-> h[n].counter, repeatCount |-> h[n].repeatCount,
     hasImplicitRepeat |-> h[n].hasImplicitRepeat,
     children |-> [i \in 1..Len(h[n].children) |-> TreeOf(h, h[n].children[i])]]

\* the repeatCounts of the first i of kids, added up
RECURSIVE RepeatSum(_, _, _)
RepeatSum(h, kids, i) ==
    IF i = 0 THEN 0 ELSE RepeatSum(h, kids, i - 1) + h[kids[i]].repeatCount

\* The step that unrolls: heap is the raw tree, heap' the unrolled one.
Unrolls == pc = "pre" /\ pc' = "squash"

\* Node u of the unrolled heap hu stands where node r of the raw heap hr
\* stood, and below them: each child c of r with repeatCount N has become N
\* consecutive children of u, c itself first and N - 1 new nodes after it
\* (all N of them new nodes when u is itself a clone), each with c's
\* abbreviation and repeatCount 1 and, when N >= least, with the counters
\* 1..N from left to right; the blocks follow in the order of r's children;
\* and the same holds below every copy.
RECURSIVE CopiesInPlace(_, _, _, _, _)
CopiesInPlace(hr, r, hu, u, least) ==
    LET rk == hr[r].children
        uk == hu[u].children
    IN  /\ Len(uk) = RepeatSum(hr, rk, Len(rk))
        /\ \A i \in 1..Len(rk) :
             LET off == RepeatSum(hr, rk, i - 1)
                 N == hr[rk[i]].repeatCount
             IN  \A k \in 1..N :
                    LET c == uk[off + k]
                    IN  /\ (k = 1 /\ u = r) => c = rk[i]
                        /\ (k > 1 \/ u # r) => c > Len(hr)
                        /\ hu[c].parent = u
                        /\ hu[c].abbreviation = hr[rk[i]].abbreviation
                        /\ hu[c].repeatCount = 1
                        /\ N >= least => hu[c].counter = k
                        /\ CopiesInPlace(hr, rk[i], hu, c, least)

C2_SquashFixedPoint ==
    pc = "post" =>
        /\ \A n \in Descendants(heap, tree) : ~isGroup(heap, n) /\ ~isEmpty(heap, n)
        /\ TreeOf(squash(heap, tree), tree) = TreeOf(heap, tree)

\* hu's copies of the children of r carry the counters unroll leaves: the
\* k-th copy of a child that was repeating carries k, a copy of a child that
\* was not carries `inherited`, the counter of the node above it; and so on
\* below every copy.
RECURSIVE CountersNearest(_, _, _, _, _)
CountersNearest(hr, r, hu, u, inherited) ==
    LET rk == hr[r].children
        uk == hu[u].children
    IN  /\ Len(uk) = RepeatSum(hr, rk, Len(rk))
        /\ \A i \in 1..Len(rk) :
             \A k \in 1..hr[rk[i]].repeatCount :
                LET c == uk[RepeatSum(hr, rk, i - 1) + k]
                    expected == IF isRepeating(hr, rk[i]) THEN k ELSE inherited
                IN  /\ hu[c].counter = expected
                    /\ CountersNearest(hr, rk[i], hu, c, expected)

\* every node below a copy of a child that was repeated (N >= 2) carries the
\* copy's counter; and so on below every copy.
RECURSIVE CountersShared(_, _, _, _)
CountersShared(hr, r, hu, u) ==
    LET rk == hr[r].children
        uk == hu[u].children
    IN  \A i \in 1..Len(rk) :
          \A k \in 1..hr[rk[i]].repeatCount :
             LET c == uk[RepeatSum(hr, rk, i - 1) + k]
             IN  /\ hr[rk[i]].repeatCount >= 2 =>
                       \A d \in Descendants(hu, c) : hu[d].counter = hu[c].counter
                 /\ CountersShared(hr, rk[i], hu, c)

\* C3 as stated: after unroll every descendant of a node produced by
\* repetition carries the counter of that repeated ancestor, also when a
\* descendant carries its own multiplier.
C3_CounterOfRepeatedAncestor == [][Unrolls => CountersShared(heap, tree, heap', tree)]_vars

\* C3 as amended: after unroll every node carries the counter of the nearest
\* node, itself or above it, that carried a multiplier (*N or bare *) in the
\* raw tree, that is its 1-based place among that node's copies, and 1 when
\* there is none; a descendant of a repeated node shares its counter only
\* down to the next node with a multiplier of its own.
C3_CounterOfNearestMultiplier == [][Unrolls => CountersNearest(heap, tree, heap', tree, 1)]_vars

\* a third copy whose child shares its counter, and a copy whose child,
\* carrying a multiplier of its own, does not
C3_Witness ==
    /\ pc = "squash"
    /\ \E n \in 1..Len(heap) : \E i \in 1..Len(heap[n].children) :
         heap[n].counter = 3 /\ heap[heap[n].children[i]].counter = 3
    /\ \E n \in 1..Len(heap) : \E i \in 1..Len(heap[n].children) :
         heap[n].counter = 2 /\ heap[heap[n].children[i]].counter # 2

\* the characters of s from position from up to position to that the token
\* scan tests itself, which are those outside every [...] and {...}
RECURSIVE ScannedAt(_, _, _)
ScannedAt(s, from, to) ==
    IF from >= to THEN {}
    ELSE IF s[from + 1] \in {"[", "{"}
    THEN IF PairEnd(s, from, 0, s[from + 1], pairs(s[from + 1])) < 0 THEN {}
         ELSE ScannedAt(s, PairEnd(s, from, 0, s[from + 1], pairs(s[from + 1])), to)
    ELSE {from} \cup ScannedAt(s, from + 1, to)

\* position p of s is followed by the end of s or by one of `chars`
FollowedBy(s, p, chars) == p + 1 >= Len(s) \/ s[p + 2] \in chars

\* The step that scans a token: the innermost activation went from stream
\* Top.stream to stream frames'[Len(frames)].stream staying in the loop.
ScansToken ==
    /\ Scanning
    /\ peek(Top.stream) \notin {"(", ">", "+", "^"}
    /\ pc' = "parse"
    /\ Len(frames') = Len(frames)

\* C8 as stated: in a token scan a '+' is taken for the sibling operator (it
\* ends the token) only if the end of input or another operator character
\* follows it; every other '+' is consumed as part of the token.
C8_PlusEndsTokenBeforeOperator ==
    [][ScansToken =>
          LET s == Top.stream.string
              e == frames'[Len(frames)].stream.pos
          IN  /\ (e < Len(s) /\ s[e + 1] = "+") =>
                     FollowedBy(s, e, {"+", ">", "^", "*", "("})
              /\ \A p \in ScannedAt(s, Top.stream.pos, Len(s)) :
                     (s[p + 1] = "+" /\ ~FollowedBy(s, p, {"+", ">", "^", "*", "("})
                      /\ \A q \in ScannedAt(s, Top.stream.pos, p) :
                             s[q + 1] = "+" \/ isAllowedChar(s[q + 1]))
                     => p < e]_vars

\* C8 as amended: in a token scan a '+' is consumed as part of the token
\* only if the end of input or one of + > ^ * follows it; any other '+'
\* (one followed by a letter, say) ends the token and is then the sibling
\* operator.
C8_PlusInTokenBeforeOperator ==
    [][ScansToken =>
          LET s == Top.stream.string
              e == frames'[Len(frames)].stream.pos
          IN  /\ \A p \in ScannedAt(s, Top.stream.pos, e) :
                     s[p + 1] = "+" => FollowedBy(s, p, {"+", ">", "^", "*"})
              /\ (e < Len(s) /\ s[e + 1] = "+") =>
                     ~FollowedBy(s, e, {"+", ">", "^", "*"})]_vars

\* a token has taken a '+' in, and a scan has stopped at a '+' that the next
\* iteration takes as the sibling operator
C8_Witness ==
    /\ pc = "parse"
    /\ frames # << >>
    /\ \E i \in 1..Len(heap) :
         heap[i].abbreviation # << >>
         /\ heap[i].abbreviation[Len(heap[i].abbreviation)] = "+"
    /\ peek(Top.stream) = "+"
    /\ Top.stream.start = Top.stream.pos
    /\ Top.stream.pos > 0

\* characters that belong to no element name: '|' may stand in a bare token
\* and '%' may not
OutsideName == {"%", "|"}

\* C5: an abbreviation whose element name holds a character outside the
\* name charset fails with the "invalid abbreviation name" error and no
\* other, and returns no tree.
C5_InvalidNameError ==
    (\E p \in ScannedAt(abbr, 0, Len(abbr)) : abbr[p + 1] \in OutsideName) =>
        /\ pc \notin {"pre", "squash", "post", "done"}
        /\ pc = "failed" => error = ErrInvalidAbbreviation

\* One step of an activation of parseAbbreviation whose loop has run
\* f.iter bodies: it ends with the endless-loop error exactly when the input
\* is not used up after `most` bodies, and no more than `most` bodies run.
GuardTripsAfter(most) ==
    (pc = "parse" /\ frames # << >>) =>
        /\ Top.iter <= most
        /\ (pc' = "failed" /\ error' = ErrEndlessLoop)
               <=> (~eol(Top.stream) /\ Top.iter = most)

\* C9 as stated: a call fails with the endless-loop error exactly when its
\* scan would need more than 1000 iterations; the loop never runs more than
\* 1000.
C9_GuardAfter1000 == [][GuardTripsAfter(LoopProtectorInit)]_vars

\* C9 as amended: a call fails with the endless-loop error of its own guard
\* exactly when its scan would need more than 999 iterations (no other error
\* ending it before); an input used up within 999 iterations is not rejected
\* by the guard, and the loop never runs more than 999 iterations.
C9_GuardAfter999 == [][GuardTripsAfter(LoopProtectorInit - 1)]_vars

\* an input of exactly 1000 operators, each used up by one iteration, has
\* been rejected by the guard
C9_Witness ==
    /\ pc = "failed"
    /\ error = ErrEndlessLoop
    /\ abbr = Rep("+", LoopProtectorInit)

\* no element occurs twice in list
NoDuplicate(list) ==
    \A i, j \in 1..Len(list) : list[i] = list[j] => i = j

\* list with its elements outside keep deleted: the order is kept
RECURSIVE Restrict(_, _)
Restrict(list, keep) ==
    IF list = << >> THEN << >>
    ELSE IF Head(list) \in keep THEN <<Head(list)>> \o Restrict(Tail(list), keep)
    ELSE Restrict(Tail(list), keep)

Range(list) == {list[i] : i \in 1..Len(list)}

\* a registry after one step: what was registered and still is keeps its
\* order, and what is new stands behind all of it
KeepsRegistrationOrder(before, after) ==
    LET kept == Range(before) \cap Range(after)
    IN  /\ Restrict(before, kept) = Restrict(after, kept)
        /\ SubSeq(after, 1, Cardinality(kept)) = Restrict(after, kept)

\* the calls of one parse(): the hooks of a registry, in its order, each
\* once, with the options of the call
HookCalls(registry, on) ==
    [i \in 1..Len(registry) |->
        [fn |-> registry[i], on |-> on, options |-> options]]

PipelineCalls ==
    HookCalls(preprocessors, "pre")
        \o << [fn |-> "unroll", on |-> "tree", options |-> ""],
              [fn |-> "squash", on |-> "tree", options |-> ""] >>
        \o HookCalls(postprocessors, "post")

\* C6: each registry holds each function at most once, in the order of
\* registration; a parse call that does not fail has called every registered
\* preprocessor once, in registry order, then unroll, then squash, then every
\* registered postprocessor once, in registry order, each hook with the
\* options of the call; the preprocessors see the raw tree and the
\* postprocessors the squashed one.
C6_PipelineOrder ==
    /\ [](/\ NoDuplicate(preprocessors)
          /\ NoDuplicate(postprocessors)
          /\ pc = "done" => calls = PipelineCalls
          /\ pc = "pre" => calls = SubSeq(PipelineCalls, 1, Len(calls))
          /\ pc = "post" => calls = SubSeq(PipelineCalls, 1, Len(calls)))
    /\ [][/\ KeepsRegistrationOrder(preprocessors, preprocessors')
          /\ KeepsRegistrationOrder(postprocessors, postprocessors')
          /\ (pc = "pre" /\ pc' = "pre") => heap' = heap
          /\ (pc = "post" /\ pc' = "post") => heap' = heap
          /\ (pc = "squash" /\ pc' = "post") => heap' = squash(heap, tree)
          /\ (pc = "pre" /\ pc' = "squash") => heap' = unroll(heap, tree)]_vars

\* a call with two hooks in each registry and options of its own is done
C6_Witness ==
    /\ pc = "done"
    /\ Len(preprocessors) = 2
    /\ Len(postprocessors) = 2
    /\ options = "opts"
    /\ Len(calls) = 6

\* C7: under addChild, remove, replace and clone every node with a parent
\* occurs exactly once in that parent's children and in no other node's
\* children, and every child of a node has that node as parent.
C7_TreeConsistent ==
    \A n \in 1..Len(heap) :
        /\ heap[n].parent # 0 =>
               /\ Cardinality({i \in 1..Len(heap[heap[n].parent].children) :
                                   heap[heap[n].parent].children[i] = n}) = 1
               /\ \A m \in 1..Len(heap) :
                      m # heap[n].parent => n \notin Range(heap[m].children)
        /\ \A i \in 1..Len(heap[n].children) :
               heap[heap[n].children[i]].parent = n

\* the call on the attribute set `given` is over
AttrParsed == given # << >> /\ pc \in {"done", "failed"}

\* the attributes of the one element of the returned tree
AttrsOfElement == heap[heap[tree].children[1]]._attributes

\* C4: an attribute set whose values are non-empty bare words or quoted
\* strings parses without error to one node named a with one (name, value)
\* pair per entry, in source order, the value as written (quotes stripped),
\* a one-character bare value included.
C4_AttributeSetAsWritten ==
    (AttrParsed /\ \A i \in 1..Len(given) : given[i].kind \in {"bare", "quoted"})
        => /\ pc = "done"
           /\ Len(heap[tree].children) = 1
           /\ heap[heap[tree].children[1]]._name = <<"a">>
           /\ AttrsOfElement =
                  [i \in 1..Len(given) |->
                      [name |-> given[i].name, value |-> given[i].value]]

\* a value with its backslashes dropped
Unescaped(v) == Restrict(v, Range(v) \ {"\\"})

\* C10: a quoted value ends at the first quote no backslash precedes: a set
\* of quoted values and values of two or more word characters, one of them
\* with an escaped quote inside, yields one attribute per entry, the escaped
\* one with the value up to its last quote (escape kept or dropped).
C10_EscapedQuoteInsideValue ==
    (/\ AttrParsed
     /\ \E i \in 1..Len(given) : given[i].kind = "escaped"
     /\ \A i \in 1..Len(given) :
            given[i].kind = "bare" => Len(given[i].written) > 1)
        => /\ pc = "done"
           /\ Len(heap[tree].children) = 1
           /\ Len(AttrsOfElement) = Len(given)
           /\ \A i \in 1..Len(given) :
                  /\ AttrsOfElement[i].name = given[i].name
                  /\ AttrsOfElement[i].value
                         \in {given[i].value, Unescaped(given[i].value)}

\* the number of parent links from node n up to a node without parent
RECURSIVE Depth(_, _)
Depth(h, n) == IF h[n].parent = 0 THEN 0 ELSE 1 + Depth(h, h[n].parent)

\* the node without parent above node n
RECURSIVE RootOf(_, _)
RootOf(h, n) == IF h[n].parent = 0 THEN n ELSE RootOf(h, h[n].parent)

\* The step that takes a '^': the innermost activation is in its loop with
\* '^' as the next character.
Climbs == Scanning /\ peek(Top.stream) = "^"

\* in every activation the context is a node below the activation's root
ContextBelowRoot ==
    pc = "parse" =>
        \A i \in 1..Len(frames) :
            /\ frames[i].context # frames[i].root
            /\ heap[frames[i].context].parent # 0
            /\ RootOf(heap, frames[i].context) = frames[i].root

\* the step makes the context a fresh last child of the grandparent of the
\* context before, one level up, or of the root again when the context
\* before was a child of the root, and it does not fail
ClimbsOneLevel ==
    LET c  == Top.context
        c2 == frames'[Len(frames)].context
        d  == Depth(heap, c)
    IN  /\ pc' = "parse"
        /\ error' = NoError
        /\ Len(frames') = Len(frames)
        /\ Len(heap') = Len(heap) + 1
        /\ c2 = Len(heap) + 1
        /\ heap'[c2] = [AbbreviationNode EXCEPT !.parent = heap'[c2].parent]
        /\ heap'[c2].parent =
               IF d >= 2 THEN heap[heap[c].parent].parent ELSE Top.root
        /\ heap'[heap'[c2].parent].children =
               Append(heap[heap'[c2].parent].children, c2)
        /\ Depth(heap', c2) = IF d >= 2 THEN d - 1 ELSE 1

\* C11: after any sequence of '>', '+', '^', group and token steps the
\* context is never the root (its parent is not null); each '^' makes the
\* context a fresh child of the grandparent of the context before, exactly
\* one level shallower, or a child of the root again when the context before
\* was a child of the root; so '^^' climbs two levels, and '^' never fails.
C11_ClimbOneLevelEach ==
    /\ []ContextBelowRoot
    /\ [][Climbs => ClimbsOneLevel]_vars

\* '^^' has just been taken three levels down: the context before the first
\* '^' was at depth 3, the one between the two at depth 2, and the context
\* is now a child of the root
C11_Witness ==
    /\ pc = "parse"
    /\ Len(frames) = 1
    /\ Top.stream.pos >= 2
    /\ Top.stream.string[Top.stream.pos] = "^"
    /\ Top.stream.string[Top.stream.pos - 1] = "^"
    /\ Top.context = Len(heap)
    /\ Depth(heap, Top.context) = 1
    /\ Depth(heap, Len(heap) - 1) = 2
    /\ Depth(heap, Len(heap) - 2) = 3

====
